---- MODULE Spec2Model ----
(***************************************************************************)
(* A model of the kindtech NOMIS client (kindtech/ons/api.py), of the      *)
(* NOMIS catalog ingester (kindtech/ons/_ingestion.py) and of the ArcGIS   *)
(* services ingester (kindtech/geo/_arcgis/_ingestion.py).                 *)
(*                                                                         *)
(* Every public function is one call of a fresh process: the call draws    *)
(* its arguments and the responses of the remote server from small sets,   *)
(* runs the function's code to its end and leaves the outcome (a returned  *)
(* value or a raised exception), the requests issued and the lines printed *)
(* in the state.  Nothing is kept between calls in the program, so a run   *)
(* is one call.                                                            *)
(***************************************************************************)
EXTENDS Integers, Sequences, FiniteSets, TLC

VARIABLES
    pc,        \* "idle" before the call, "done" after it; "loop" and "wait" inside a loop
    fn,        \* the function called
    args,      \* its arguments
    net,       \* the HTTP requests issued so far: <<[method, url], ...>>
    response,  \* the answer to the latest of them
    loc,       \* the local variables of a function inside its loop
    ret,       \* the outcome of the call
    out,       \* the lines printed to standard output
    file,      \* what is on disk at the output path of the ArcGIS ingester
    null_dtype_ok  \* whether the installed polars applies .str to a column of dtype Null

vars == <<pc, fn, args, net, response, loc, ret, out, file, null_dtype_ok>>

\* What the NOMIS functions never touch.
disk == <<file, null_dtype_ok>>

(***************************************************************************)
(* Bounds of the model.                                                    *)
(***************************************************************************)
MaxParams == 2        \* keyword arguments of a query
MaxItems == 2         \* elements of a list-valued keyword argument
MaxTables == 2        \* datasets of the catalog
MaxSources == 2       \* top-level items of the sources document
MaxChildren == 2      \* nested items of a census item
MaxAnnotations == 2   \* annotations of a key family

\* Nothing at the output path, its directory being there.
NoFile == [state |-> "absent"]

(***************************************************************************)
(* Generic helpers.                                                        *)
(***************************************************************************)
SeqsUpTo(S, n) == UNION {[1..k -> S] : k \in 0..n}

Distinct(s) == \A i, j \in 1..Len(s) : i # j => s[i] # s[j]

RECURSIVE Cat(_)
\* The concatenation of a sequence of strings.
Cat(parts) == IF parts = <<>> THEN "" ELSE Head(parts) \o Cat(Tail(parts))

(***************************************************************************)
(* Outcomes of a call.                                                     *)
(***************************************************************************)
NoOutcome == [kind |-> "none"]
Return(v) == [kind |-> "return", value |-> v]
Raise(cls, msg, cause) == [kind |-> "raise", class |-> cls, msg |-> msg, cause |-> cause]

(***************************************************************************)
(* Values of keyword arguments: a str, an int, or a list of those.         *)
(***************************************************************************)
StrVal(s) == [t |-> "str", s |-> s]
IntVal(n) == [t |-> "int", n |-> n]
ListVal(items) == [t |-> "list", items |-> items]

\* str(value) as the f-string "{value}" renders a scalar.
Format(v) == IF v.t = "int" THEN ToString(v.n) ELSE v.s

ItemValues == {StrVal("geography_name"), StrVal("obs value&x=1")}
ScalarValues == {StrVal("latest"), StrVal("a b&c=d"), IntVal(20100)}
ListValues == {ListVal(items) : items \in SeqsUpTo(ItemValues, MaxItems)}
ParamValues == ScalarValues \cup ListValues
ParamKeys == {"geography", "select", "time"}

\* A **kwargs mapping in its iteration (insertion) order: no key twice.
KwargsSet ==
    {kw \in SeqsUpTo([key : ParamKeys, value : ParamValues], MaxParams) :
        Distinct([i \in 1..Len(kw) |-> kw[i].key])}

(***************************************************************************)
(* build_url_query_string                                                  *)
(***************************************************************************)
RECURSIVE Join(_, _)
\* sep.join(parts)
Join(sep, parts) ==
    IF parts = <<>> THEN ""
    ELSE IF Len(parts) = 1 THEN parts[1]
    ELSE parts[1] \o sep \o Join(sep, Tail(parts))

RECURSIVE ExtendItems(_, _, _)
\* for item in value: query_parts.append(f"{key}={item}")
ExtendItems(query_parts, key, items) ==
    IF items = <<>> THEN query_parts
    ELSE ExtendItems(Append(query_parts, key \o "=" \o Format(Head(items))),
                     key, Tail(items))

\* A mutant: a list value is rendered as one token, like a scalar.
QueryPartsNoExpand(query_parts, key, value) ==
    Append(query_parts,
           key \o "=" \o (IF value.t = "list" THEN Join(",", [i \in 1..Len(value.items) |-> Format(value.items[i])])
                          ELSE Format(value)))

\* The body of the loop over kwargs.items().
QueryParts(query_parts, key, value) ==
    IF value.t = "list"
    THEN ExtendItems(query_parts, key, value.items)
    ELSE Append(query_parts, key \o "=" \o Format(value))

RECURSIVE QueryLoop(_, _)
QueryLoop(query_parts, kw) ==
    IF kw = <<>> THEN query_parts
    ELSE QueryLoop(QueryParts(query_parts, Head(kw).key, Head(kw).value), Tail(kw))

build_url_query_string(kw) ==
    IF kw = <<>> THEN ""
    ELSE "?" \o Join("&", QueryLoop(<<>>, kw))

BuildQuery ==
    /\ pc = "idle"
    /\ \E kw \in KwargsSet :
        /\ args' = [kwargs |-> kw]
        /\ ret' = Return(build_url_query_string(kw))
    /\ fn' = "build_url_query_string"
    /\ pc' = "done"
    /\ UNCHANGED <<net, response, loc, out>>
    /\ UNCHANGED disk

(***************************************************************************)
(* HTTP: requests.get and Response.raise_for_status.                       *)
(***************************************************************************)
NOMIS_BASE_URL == "https://www.nomisweb.co.uk/api/v01"
BaseUrls == {NOMIS_BASE_URL, "http://localhost:8000/api"}

\* The final status of a response: redirects are followed, a 304 is not one.
Statuses == {200, 304, 404, 500}

NoCause == [class |-> "None", msg |-> <<>>]

\* requests.get raised instead of returning a response.
Refused == [conn |-> "refused"]
Response(status, body) == [conn |-> "ok", status |-> status, body |-> body]
Responses(Bodies) == {Refused} \cup {Response(st, b) : st \in Statuses, b \in Bodies}

\* The answers of a JSON endpoint: any document with a 200, and with every
\* other status a body that is no JSON or a given document.
JsonResponses(Bodies, doc) ==
    {Refused}
    \cup {Response(200, b) : b \in Bodies}
    \cup {Response(st, b) : st \in Statuses \ {200}, b \in {[json |-> FALSE], [json |-> TRUE, data |-> doc]}}

Get_(url) == [method |-> "GET", url |-> url]
NoResponse == [conn |-> "none"]
NoLocals == [nomis_tables |-> <<>>, filtered |-> <<>>, sources_list |-> <<>>]

ConnectionError == Raise("ConnectionError", <<"Connection refused">>, NoCause)

\* A mutant: only server errors raise.
ServerErrorOnly(status) == 500 <= status /\ status < 600

\* Response.raise_for_status raises HTTPError for 4xx and 5xx, and only those.
IsErrorStatus(status) == 400 <= status /\ status < 600

HTTPError(status, url) ==
    Raise("HTTPError",
          <<ToString(status),
            IF status < 500 THEN " Client Error" ELSE " Server Error",
            " for url: ", url>>,
          NoCause)

(***************************************************************************)
(* Text, as a sequence of characters.                                      *)
(***************************************************************************)
IsSpace(c) == c \in {" ", "\n", "\t", "\r"}

RECURSIVE LStrip(_)
LStrip(s) == IF s # <<>> /\ IsSpace(Head(s)) THEN LStrip(Tail(s)) ELSE s

RECURSIVE RStrip(_)
RStrip(s) ==
    IF s # <<>> /\ IsSpace(s[Len(s)]) THEN RStrip(SubSeq(s, 1, Len(s) - 1)) ELSE s

\* str.strip()
Strip(s) == RStrip(LStrip(s))

\* str.startswith(prefix)
StartsWith(s, prefix) ==
    Len(s) >= Len(prefix) /\ SubSeq(s, 1, Len(prefix)) = prefix

\* "<!DOCTYPE html>"
DoctypeHtml == <<"<", "!", "D", "O", "C", "T", "Y", "P", "E", " ", "h", "t", "m", "l", ">">>
LowerDoctype == <<"<", "!", "d", "o", "c", "t", "y", "p", "e", " ", "h", "t", "m", "l", ">">>
HtmlTag == <<"<", "h", "t", "m", "l", ">">>
CsvHeader == <<"a", ",", "b", "\n", "1", ",", "2", "\n">>

(***************************************************************************)
(* load_ons                                                                *)
(***************************************************************************)
TruncationRows == 25000

\* What pandas.read_csv makes of a body: a table, or an exception.
Table(nrows) == [columns |-> <<"geography_name", "obs_value">>, nrows |-> nrows]
Parsed(nrows) == [ok |-> TRUE, table |-> Table(nrows)]
ParseFailure(cls, msg) == [ok |-> FALSE, error |-> [class |-> cls, msg |-> <<msg>>]]
EmptyDataError == ParseFailure("EmptyDataError", "No columns to parse from file")
ParserError == ParseFailure("ParserError", "Error tokenizing data. C error: Expected 2 fields in line 3, saw 3")

RowCounts == {0, 3, TruncationRows - 1, TruncationRows, TruncationRows + 1}

\* The beginning of a body's text; the data rows that follow are in what
\* read_csv makes of the body.
BodyTexts ==
    { <<>>,
      <<" ", "\n">>,
      CsvHeader,
      DoctypeHtml \o HtmlTag,
      <<"\n", " ">> \o DoctypeHtml \o <<"\n">>,
      <<"x">> \o DoctypeHtml,
      SubSeq(DoctypeHtml, 1, Len(DoctypeHtml) - 1),
      LowerDoctype \o HtmlTag,
      HtmlTag }

\* A body of white space has no columns to parse.
CsvBodies ==
    {b \in [text : BodyTexts,
            csv : {Parsed(n) : n \in RowCounts} \cup {EmptyDataError, ParserError}] :
        Strip(b.text) = <<>> => b.csv = EmptyDataError}

DatasetIds == {"NM_1_1", "INVALID_ID"}

LoadKwargs ==
    { <<>>,
      <<[key |-> "geography", value |-> StrVal("TYPE480")]>>,
      <<[key |-> "time", value |-> StrVal("latest")],
        [key |-> "select", value |-> ListVal(<<StrVal("geography_name"), StrVal("obs_value")>>)]>> }

\* A mutant: the query string is left out of the URL.
NomisUrlNoQuery(base_url, dataset_id, query_string) ==
    base_url \o "/dataset/" \o dataset_id \o ".data.csv"

\* f"{base_url}/dataset/{dataset_id}.data.csv{query_string}"
NomisUrl(base_url, dataset_id, query_string) ==
    base_url \o "/dataset/" \o dataset_id \o ".data.csv" \o query_string

\* A mutant: the page is recognised by its <html> tag, not by its doctype.
IsHtmlErrorPageByTag(text) == StartsWith(Strip(text), HtmlTag)

\* response.text.strip().startswith("<!DOCTYPE html>")
IsHtmlErrorPage(text) == StartsWith(Strip(text), DoctypeHtml)

InvalidDatasetError ==
    Raise("ValueError",
          <<"NOMIS ID does not exist. Use ", "list_tables", "() for full list of IDs">>,
          NoCause)

\* A mutant: the parse failure is wrapped without being chained.
CsvParseErrorUnchained(e) ==
    Raise("ValueError", <<"Failed to parse CSV data: ">> \o e.msg, NoCause)

\* raise ValueError(f"Failed to parse CSV data: {e}") from e
CsvParseError(e) ==
    Raise("ValueError", <<"Failed to parse CSV data: ">> \o e.msg, e)

QueryingLine(url) == "Querying NOMIS API -> " \o url

TruncationWarning ==
    "Warning: Query has been truncated to 25,000 rows - providing a NOMIS UID "
    \o "(i.e. uid = '0x...') will return the full table. See 'API Key, your "
    \o "Unique ID and Signatures' section at "
    \o "https://www.nomisweb.co.uk/api/v01/help for further details"

\* A mutant: the warning is given from the threshold upwards, one row late.
IsTruncatedLate(table) == table.nrows > TruncationRows

\* len(nomis_table) == 25000
IsTruncated(table) == table.nrows = TruncationRows

\* The code after requests.get has returned `resp`: [ret, out].
LoadOnsBody(url, resp) ==
    IF IsErrorStatus(resp.status)
    THEN [ret |-> HTTPError(resp.status, url), out |-> <<>>]
    ELSE IF IsHtmlErrorPage(resp.body.text)
    THEN [ret |-> InvalidDatasetError, out |-> <<>>]
    ELSE IF ~resp.body.csv.ok
    THEN [ret |-> CsvParseError(resp.body.csv.error), out |-> <<>>]
    ELSE [ret |-> Return(resp.body.csv.table),
          out |-> IF IsTruncated(resp.body.csv.table) THEN <<TruncationWarning>> ELSE <<>>]

LoadOns ==
    /\ pc = "idle"
    /\ \E dataset_id \in DatasetIds, base_url \in BaseUrls, kw \in LoadKwargs,
          r \in Responses(CsvBodies) :
        LET url == NomisUrl(base_url, dataset_id, build_url_query_string(kw))
            run == IF r.conn = "ok" THEN LoadOnsBody(url, r)
                   ELSE [ret |-> ConnectionError, out |-> <<>>]
        IN  /\ args' = [dataset_id |-> dataset_id, base_url |-> base_url, kwargs |-> kw]
            /\ net' = <<Get_(url)>>
            /\ response' = r
            /\ out' = <<QueryingLine(url)>> \o run.out
            /\ ret' = run.ret
    /\ fn' = "load_ons"
    /\ pc' = "done"
    /\ UNCHANGED loc
    /\ UNCHANGED disk

(***************************************************************************)
(* JSON documents.  A dict is a record, and a key is in the dict when it   *)
(* is in the record's domain; a list is a sequence.                        *)
(***************************************************************************)
Has(dict, key) == key \in DOMAIN dict

NotJson == [json |-> FALSE]
JsonBody(data) == [json |-> TRUE, data |-> data]

JSONDecodeError ==
    Raise("JSONDecodeError", <<"Expecting value: line 1 column 1 (char 0)">>, NoCause)
KeyError(key) == Raise("KeyError", <<"'", key, "'">>, NoCause)

Fetched(data) == [ok |-> TRUE, data |-> data]
Failed(exc) == [ok |-> FALSE, exc |-> exc]

\* A mutant: the status of the response is not looked at.
GetJsonAnyStatus(url, resp) ==
    IF resp.conn # "ok" THEN Failed(ConnectionError)
    ELSE IF ~resp.body.json THEN Failed(JSONDecodeError)
    ELSE Fetched(resp.body.data)

\* response = requests.get(url); response.raise_for_status(); response.json()
GetJson(url, resp) ==
    IF resp.conn # "ok" THEN Failed(ConnectionError)
    ELSE IF IsErrorStatus(resp.status) THEN Failed(HTTPError(resp.status, url))
    ELSE IF ~resp.body.json THEN Failed(JSONDecodeError)
    ELSE Fetched(resp.body.data)

(***************************************************************************)
(* list_tables                                                             *)
(***************************************************************************)
TableIds == {"NM_1_1", "NM_2_1", "NM_45_1", "NM_2064_1"}

KeyFamily(id) == [id |-> id, name |-> [value |-> "Name of " \o id]]

\* The dataset definitions: each dataset once.
TablesDocs ==
    {[error |-> "no structure"]}
    \cup {[structure |-> [keyfamilies |-> [keyfamily |-> [i \in 1..Len(ids) |-> KeyFamily(ids[i])]]]] :
            ids \in {t \in SeqsUpTo(TableIds, MaxTables) : Distinct(t)}}

\* A document of one dataset.
TablesSample ==
    [structure |-> [keyfamilies |-> [keyfamily |-> <<KeyFamily("NM_1_1")>>]]]

TablesBodies == {NotJson} \cup {JsonBody(d) : d \in TablesDocs}

TablesUrl(base_url) == base_url \o "/dataset/def.sdmx.json"

\* pd.DataFrame({"id": nomis_ids, "name": nomis_names}), as its rows.
TablesFrame(data) ==
    IF ~Has(data, "structure") THEN KeyError("structure")
    ELSE LET keyfamilies == data.structure.keyfamilies.keyfamily
             nomis_ids == [i \in 1..Len(keyfamilies) |-> keyfamilies[i].id]
             nomis_names == [i \in 1..Len(keyfamilies) |-> keyfamilies[i].name.value]
         IN  Return([i \in 1..Len(nomis_ids) |-> [id |-> nomis_ids[i], name |-> nomis_names[i]]])

list_tables(url, resp) ==
    LET got == GetJson(url, resp)
    IN  IF got.ok THEN TablesFrame(got.data) ELSE got.exc

ListTables ==
    /\ pc = "idle"
    /\ \E base_url \in BaseUrls, r \in JsonResponses(TablesBodies, TablesSample) :
        LET url == TablesUrl(base_url)
        IN  /\ args' = [base_url |-> base_url]
            /\ net' = <<Get_(url)>>
            /\ response' = r
            /\ ret' = list_tables(url, r)
    /\ fn' = "list_tables"
    /\ pc' = "done"
    /\ UNCHANGED <<loc, out>>
    /\ UNCHANGED disk

(***************************************************************************)
(* list_data_sources                                                       *)
(***************************************************************************)
\* The nested items of a census item: with or without a description.
CensusChildren ==
    { [id |-> "census_2011", name |-> "Census 2011", description |-> "2011 Census data"],
      [id |-> "census_2001", name |-> "Census 2001"],
      [id |-> "census", name |-> "Census 2021", description |-> "2021 Census data"] }

SourceItems ==
    { [id |-> "jsa", name |-> "Labour Market", description |-> "Labour market statistics"],
      [id |-> "lfs", name |-> "Labour Force Survey"],
      [id |-> "census", name |-> "Census"] }
    \cup {[id |-> "census", name |-> "Census", item |-> ch] :
            ch \in SeqsUpTo(CensusChildren, MaxChildren)}

SourcesDocs ==
    {[error |-> "no contenttype"]}
    \cup {[contenttype |-> [item |-> items]] : items \in SeqsUpTo(SourceItems, MaxSources)}

\* The document of the tests: one source and a census of two.
SourcesSample ==
    [contenttype |-> [item |->
        <<[id |-> "jsa", name |-> "Labour Market", description |-> "Labour market statistics"],
          [id |-> "census", name |-> "Census",
           item |-> <<[id |-> "census_2011", name |-> "Census 2011", description |-> "2011 Census data"],
                      [id |-> "census_2001", name |-> "Census 2001"]>>]>>]]

SourcesBodies == {NotJson} \cup {JsonBody(d) : d \in SourcesDocs}

SourcesUrl(base_url) == base_url \o "/contenttype/sources.json"

\* dict.get(key, default)
Get(dict, key, default) == IF Has(dict, key) THEN dict[key] ELSE default

\* A mutant: the name and the id of a source change places.
SourceSwapped(item, default) ==
    [source_name |-> item.id,
     source_id |-> item.name,
     source_description |-> Get(item, "description", default)]

\* The descriptor of an item: {"source_name", "source_id", "source_description"}.
Source(item, default) ==
    [source_name |-> item.name,
     source_id |-> item.id,
     source_description |-> Get(item, "description", default)]

\* A mutant: the census item is listed like any other item.
SourcesOfUnflattened(item) == Fetched(<<Source(item, "")>>)

\* The body of the loop over data["contenttype"]["item"]: the sources one
\* item adds to sources_list, or the KeyError of a census item with no "item".
SourcesOf(item) ==
    IF item.id # "census" THEN Fetched(<<Source(item, "")>>)
    ELSE IF ~Has(item, "item") THEN Failed(KeyError("item"))
    ELSE Fetched([i \in 1..Len(item.item) |-> Source(item.item[i], "No Description")])

RECURSIVE SourcesLoop(_, _)
SourcesLoop(sources_list, items) ==
    IF items = <<>> THEN Return(sources_list)
    ELSE LET got == SourcesOf(Head(items))
         IN  IF got.ok THEN SourcesLoop(sources_list \o got.data, Tail(items))
             ELSE got.exc

list_data_sources(url, resp) ==
    LET got == GetJson(url, resp)
    IN  IF ~got.ok THEN got.exc
        ELSE IF ~Has(got.data, "contenttype") THEN KeyError("contenttype")
        ELSE SourcesLoop(<<>>, got.data.contenttype.item)

ListDataSources ==
    /\ pc = "idle"
    /\ \E base_url \in BaseUrls, r \in JsonResponses(SourcesBodies, SourcesSample) :
        LET url == SourcesUrl(base_url)
        IN  /\ args' = [base_url |-> base_url]
            /\ net' = <<Get_(url)>>
            /\ response' = r
            /\ ret' = list_data_sources(url, r)
    /\ fn' = "list_data_sources"
    /\ pc' = "done"
    /\ UNCHANGED <<loc, out>>
    /\ UNCHANGED disk

(***************************************************************************)
(* get_overview                                                            *)
(***************************************************************************)
\* A value whose type the code tests carries its type: ListVal, StrVal, DictVal.
DictVal(d) == [t |-> "dict", d |-> d]

SourcesTitle == "contenttype/sources"

Annotation(title, text) == DictVal([annotationtitle |-> title, annotationtext |-> text])

AnnotationValues ==
    { Annotation(SourcesTitle, "Office for National Statistics"),
      Annotation(SourcesTitle, "Census Office"),
      Annotation(SourcesTitle, ""),
      DictVal([annotationtitle |-> SourcesTitle]),
      Annotation("Status", "Current"),
      StrVal("a note") }

\* The entries of structure.keyfamilies.keyfamily.
KeyFamilyEntries ==
    { [id |-> "NM_1_1"],
      [id |-> "NM_1_1", annotations |-> [count |-> "0"]],
      [id |-> "NM_1_1", annotations |-> [annotation |-> Annotation(SourcesTitle, "Office for National Statistics")]] }
    \cup {[id |-> "NM_1_1", annotations |-> [annotation |-> ListVal(a)]] :
            a \in SeqsUpTo(AnnotationValues, MaxAnnotations)}

KeyFamiliesValues ==
    { [count |-> "0"],
      [keyfamily |-> ListVal(<<>>)],
      [keyfamily |-> DictVal([id |-> "NM_1_1"])],
      [keyfamily |-> ListVal(<<[id |-> "NM_1_1"],
                               [id |-> "NM_1_2", annotations |-> [annotation |->
                                   ListVal(<<Annotation(SourcesTitle, "Census Office")>>)]]>>)] }
    \cup {[keyfamily |-> ListVal(<<kf>>)] : kf \in KeyFamilyEntries}

HeaderValues ==
    { [id |-> "h"],
      [sender |-> [id |-> "NOMIS"]],
      [sender |-> [contact |-> [uri |-> "https://www.nomisweb.co.uk"]]],
      [sender |-> [contact |-> [name |-> ""]]],
      [sender |-> [contact |-> [name |-> "Nomis"]]] }

OverviewDocs ==
    { [error |-> "no structure"], [structure |-> [xmlns |-> "sdmx"]] }
    \cup {[structure |-> [keyfamilies |-> k]] : k \in KeyFamiliesValues}
    \cup {[structure |-> [header |-> h]] : h \in HeaderValues}
    \cup {[structure |-> [keyfamilies |-> k, header |-> h]] :
            k \in KeyFamiliesValues, h \in HeaderValues}

\* The document of the tests.
OverviewSample ==
    [structure |->
        [keyfamilies |-> [keyfamily |-> ListVal(<<
            [id |-> "NM_1_1", annotations |-> [annotation |-> ListVal(<<
                Annotation(SourcesTitle, "Office for National Statistics")>>)]]>>)],
         header |-> [sender |-> [contact |-> [name |-> "Nomis"]]]]]

OverviewBodies == {NotJson} \cup {JsonBody(d) : d \in OverviewDocs}

OverviewUrl(base_url, dataset_id) ==
    base_url \o "/dataset/" \o dataset_id \o "/def.sdmx.json"

\* The decoded document, as it is.
get_overview(url, resp) ==
    LET got == GetJson(url, resp)
    IN  IF got.ok THEN Return(got.data) ELSE got.exc

GetOverview ==
    /\ pc = "idle"
    /\ \E dataset_id \in DatasetIds, base_url \in BaseUrls,
          r \in JsonResponses(OverviewBodies, OverviewSample) :
        LET url == OverviewUrl(base_url, dataset_id)
        IN  /\ args' = [dataset_id |-> dataset_id, base_url |-> base_url]
            /\ net' = <<Get_(url)>>
            /\ response' = r
            /\ ret' = get_overview(url, r)
    /\ fn' = "get_overview"
    /\ pc' = "done"
    /\ UNCHANGED <<loc, out>>
    /\ UNCHANGED disk

(***************************************************************************)
(* extract_data_source                                                     *)
(***************************************************************************)
\* A mutant: the second id is not excluded.
ExcludedIdsFirst == {"NM_45_1"}

ExcludedIds == {"NM_45_1", "NM_2064_1"}

IndexError == Raise("IndexError", <<"list index out of range">>, NoCause)

RECURSIVE FindSource(_)
\* The loop over the annotations: the text of the first one titled
\* "contenttype/sources", "" when it has no text or there is none.
FindSource(annotations) ==
    IF annotations = <<>> THEN ""
    ELSE LET annotation == Head(annotations)
         IN  IF /\ annotation.t = "dict"
                /\ Get(annotation.d, "annotationtitle", "None") = SourcesTitle
             THEN Get(annotation.d, "annotationtext", "")
             ELSE FindSource(Tail(annotations))

\* Path 1: the annotations of the first key family; keyfamily[0] of an empty
\* list raises IndexError.
AnnotationSource(x) ==
    IF /\ Has(x, "structure")
       /\ Has(x.structure, "keyfamilies")
       /\ Has(x.structure.keyfamilies, "keyfamily")
       /\ x.structure.keyfamilies.keyfamily.t = "list"
    THEN IF x.structure.keyfamilies.keyfamily.items = <<>> THEN Failed(IndexError)
         ELSE LET keyfamily == x.structure.keyfamilies.keyfamily.items[1]
              IN  IF /\ Has(keyfamily, "annotations")
                     /\ Has(keyfamily.annotations, "annotation")
                     /\ keyfamily.annotations.annotation.t = "list"
                  THEN Fetched(FindSource(keyfamily.annotations.annotation.items))
                  ELSE Fetched("")
    ELSE Fetched("")

HasContactName(x) ==
    /\ Has(x, "structure")
    /\ Has(x.structure, "header")
    /\ Has(x.structure.header, "sender")
    /\ Has(x.structure.header.sender, "contact")
    /\ Has(x.structure.header.sender.contact, "name")

\* A mutant: the contact name is taken whenever there is one.
ContactAlways(source_name, x) ==
    IF HasContactName(x) THEN x.structure.header.sender.contact.name ELSE source_name

\* Path 2: the contact name, when path 1 has left source_name empty.
ContactFallback(source_name, x) ==
    IF source_name = "" /\ HasContactName(x)
    THEN x.structure.header.sender.contact.name
    ELSE source_name

\* The body of the try block after get_overview has returned x.
SourceName(x) ==
    LET found == AnnotationSource(x)
    IN  IF found.ok THEN Fetched(ContactFallback(found.data, x)) ELSE found

SourceRow(source_name, dataset_id) == [sourceName |-> source_name, id |-> dataset_id]

ProcessingLine(dataset_id) == "Processing dataset: " \o dataset_id
ErrorLine(dataset_id, exc) ==
    "Error processing dataset " \o dataset_id \o ": " \o Cat(exc.msg)

\* A mutant: the row of a failure carries the error's text.
ProcessDatasetErrorText(dataset_id, url, resp) ==
    LET x == get_overview(url, resp)
        found == IF x.kind = "return" THEN SourceName(x.value) ELSE Failed(x)
    IN  IF found.ok
        THEN [row |-> SourceRow(found.data, dataset_id), out |-> <<>>]
        ELSE [row |-> SourceRow(Cat(found.exc.msg), dataset_id),
              out |-> <<ErrorLine(dataset_id, found.exc)>>]

\* One turn of the loop over filtered_tables["id"], from the answer to the
\* overview request on: [row, out].
ProcessDataset(dataset_id, url, resp) ==
    LET x == get_overview(url, resp)
        found == IF x.kind = "return" THEN SourceName(x.value) ELSE Failed(x)
    IN  IF found.ok
        THEN [row |-> SourceRow(found.data, dataset_id), out |-> <<>>]
        ELSE [row |-> SourceRow("", dataset_id),
              out |-> <<ErrorLine(dataset_id, found.exc)>>]

\* A mutant: the ids are gone through from the last one to the first.
FilteredIdsBackwards(nomis_tables) ==
    LET filtered_tables == SelectSeq(nomis_tables, LAMBDA row : row.id \notin ExcludedIds)
    IN  [i \in 1..Len(filtered_tables) |->
            filtered_tables[Len(filtered_tables) + 1 - i].id]

\* nomis_tables[(id != "NM_45_1") & (id != "NM_2064_1")]["id"]
FilteredIds(nomis_tables) ==
    LET filtered_tables == SelectSeq(nomis_tables, LAMBDA row : row.id \notin ExcludedIds)
    IN  [i \in 1..Len(filtered_tables) |-> filtered_tables[i].id]

\* list_tables and the filter; the frame of no row is returned at once.
ExtractStart ==
    /\ pc = "idle"
    /\ \E base_url \in BaseUrls, r \in JsonResponses(TablesBodies, TablesSample) :
        LET url == TablesUrl(base_url)
            nomis_tables == list_tables(url, r)
            ids == IF nomis_tables.kind = "return" THEN FilteredIds(nomis_tables.value) ELSE <<>>
        IN  /\ args' = [base_url |-> base_url]
            /\ net' = <<Get_(url)>>
            /\ response' = r
            /\ loc' = [nomis_tables |-> IF nomis_tables.kind = "return"
                                        THEN nomis_tables.value ELSE <<>>,
                        filtered |-> ids, sources_list |-> <<>>]
            /\ IF nomis_tables.kind = "raise"
               THEN pc' = "done" /\ ret' = nomis_tables
               ELSE IF ids = <<>>
               THEN pc' = "done" /\ ret' = Return(<<>>)
               ELSE pc' = "loop" /\ ret' = NoOutcome
    /\ fn' = "extract_data_source"
    /\ UNCHANGED out
    /\ UNCHANGED disk

\* The next dataset: its line is printed and its overview requested; the
\* call blocks until the answer.
ExtractRequest ==
    /\ pc = "loop"
    /\ fn = "extract_data_source"
    /\ LET dataset_id == Head(loc.filtered)
       IN  /\ out' = Append(out, ProcessingLine(dataset_id))
           /\ net' = Append(net, Get_(OverviewUrl(args.base_url, dataset_id)))
    /\ response' = NoResponse
    /\ pc' = "wait"
    /\ UNCHANGED <<fn, args, loc, ret>>
    /\ UNCHANGED disk

\* The answer: the row of the dataset is appended; after the last dataset
\* the rows are returned.
ExtractStep ==
    /\ pc = "wait"
    /\ fn = "extract_data_source"
    /\ \E r \in JsonResponses(OverviewBodies, OverviewSample) :
        LET dataset_id == Head(loc.filtered)
            got == ProcessDataset(dataset_id, net[Len(net)].url, r)
            sources_list == Append(loc.sources_list, got.row)
            rest == Tail(loc.filtered)
        IN  /\ response' = r
            /\ out' = out \o got.out
            /\ loc' = [loc EXCEPT !.filtered = rest, !.sources_list = sources_list]
            /\ IF rest = <<>>
               THEN pc' = "done" /\ ret' = Return(sources_list)
               ELSE pc' = "loop" /\ ret' = ret
    /\ UNCHANGED <<fn, args, net>>
    /\ UNCHANGED disk

(***************************************************************************)
(* create_nomis_tables_dataset                                             *)
(***************************************************************************)
RECURSIVE ExtractLoop(_, _, _)
\* The loop of extract_data_source run to its end, with the answers that the
\* overview requests get, one per id: [rows, net, out].
ExtractLoop(base_url, ids, answers) ==
    IF ids = <<>> THEN [rows |-> <<>>, net |-> <<>>, out |-> <<>>]
    ELSE LET dataset_id == Head(ids)
             url == OverviewUrl(base_url, dataset_id)
             got == ProcessDataset(dataset_id, url, Head(answers))
             rest == ExtractLoop(base_url, Tail(ids), Tail(answers))
         IN  [rows |-> <<got.row>> \o rest.rows,
              net |-> <<Get_(url)>> \o rest.net,
              out |-> <<ProcessingLine(dataset_id)>> \o got.out \o rest.out]

\* extract_data_source as one call: [ret, net, out].
extract_data_source(base_url, resp, answers) ==
    LET url == TablesUrl(base_url)
        nomis_tables == list_tables(url, resp)
    IN  IF nomis_tables.kind = "raise"
        THEN [ret |-> nomis_tables, net |-> <<Get_(url)>>, out |-> <<>>]
        ELSE LET run == ExtractLoop(base_url, FilteredIds(nomis_tables.value), answers)
             IN  [ret |-> Return(run.rows), net |-> <<Get_(url)>> \o run.net, out |-> run.out]

\* The cell of a row that has no match in the other frame.
NaN == [t |-> "nan"]

\* pd.DataFrame(rows).columns: a frame made of no row has no column.
Columns(rows) == IF rows = <<>> THEN {} ELSE DOMAIN rows[1]

\* The rows of left joined with the row of right at each position of matches.
JoinedRows(row, right, matches) ==
    IF matches = <<>>
    THEN <<[id |-> row.id, name |-> row.name, sourceName |-> NaN]>>
    ELSE [j \in 1..Len(matches) |->
            [id |-> row.id, name |-> row.name,
             sourceName |-> StrVal(right[matches[j]].sourceName)]]

\* The positions of right whose id is the given one, in order.
Matches(right, id) ==
    SelectSeq([j \in 1..Len(right) |-> j], LAMBDA j : right[j].id = id)

RECURSIVE LeftJoin(_, _)
\* Every row of left in order, with its matches or with none.
LeftJoin(left, right) ==
    IF left = <<>> THEN <<>>
    ELSE JoinedRows(Head(left), right, Matches(right, Head(left).id))
            \o LeftJoin(Tail(left), right)

\* left.merge(right, on="id", how="left"): the key has to be a column of
\* both frames; every row of left is kept.
MergeLeft(left, right) ==
    IF "id" \notin Columns(right) THEN KeyError("id")
    ELSE Return(LeftJoin(left, right))

\* The answers to an overview request that tell the outcomes of a dataset
\* apart: refused, the source of an annotation, the contact name.
CreateAnswers ==
    { Refused,
      Response(200, JsonBody(OverviewSample)),
      Response(200, JsonBody([structure |->
          [header |-> [sender |-> [contact |-> [name |-> "Nomis"]]]]])) }

\* list_tables, extract_data_source, and the merge of their frames.
CreateDataset ==
    /\ pc = "idle"
    /\ \E base_url \in BaseUrls,
          r1 \in JsonResponses(TablesBodies, TablesSample),
          r2 \in JsonResponses(TablesBodies, TablesSample),
          answers \in [1..MaxTables -> CreateAnswers] :
        LET url == TablesUrl(base_url)
            nomis_tables == list_tables(url, r1)
            sources == extract_data_source(base_url, r2, answers)
        IN  /\ args' = [base_url |-> base_url]
            /\ IF nomis_tables.kind = "raise"
               THEN /\ net' = <<Get_(url)>>
                    /\ out' = out
                    /\ loc' = NoLocals
                    /\ ret' = nomis_tables
               ELSE /\ net' = <<Get_(url)>> \o sources.net
                    /\ out' = out \o sources.out
                    /\ IF sources.ret.kind = "raise"
                       THEN /\ loc' = [nomis_tables |-> nomis_tables.value]
                            /\ ret' = sources.ret
                       ELSE /\ loc' = [nomis_tables |-> nomis_tables.value,
                                       sources |-> sources.ret.value]
                            /\ ret' = MergeLeft(nomis_tables.value, sources.ret.value)
    /\ response' = NoResponse
    /\ fn' = "create_nomis_tables_dataset"
    /\ pc' = "done"
    /\ UNCHANGED disk

(***************************************************************************)
(* The ArcGIS services ingester (kindtech/geo/_arcgis/_ingestion.py).      *)
(*                                                                         *)
(* Text is a string; its characters are its substrings of length one.     *)
(***************************************************************************)
ARCGIS_BASE_URL == "https://services1.arcgis.com/ESMARspQHYMw9BZ9/arcgis/rest/services/"
DEFAULT_OUTPUT_PATH == "kindtech/geo/_arcgis/data/arcgis_services.csv"

Char(s, i) == SubSeq(s, i, i)

\* The letters that the flag i folds: a lower-case letter is its upper-case one.
Fold ==
    [c \in {"a", "b", "c", "d", "e", "f", "g", "h", "i", "j", "k", "l", "m",
            "n", "o", "p", "q", "r", "s", "t", "u", "v", "w", "x", "y", "z"} |->
        CASE c = "a" -> "A" [] c = "b" -> "B" [] c = "c" -> "C" [] c = "d" -> "D"
          [] c = "e" -> "E" [] c = "f" -> "F" [] c = "g" -> "G" [] c = "h" -> "H"
          [] c = "i" -> "I" [] c = "j" -> "J" [] c = "k" -> "K" [] c = "l" -> "L"
          [] c = "m" -> "M" [] c = "n" -> "N" [] c = "o" -> "O" [] c = "p" -> "P"
          [] c = "q" -> "Q" [] c = "r" -> "R" [] c = "s" -> "S" [] c = "t" -> "T"
          [] c = "u" -> "U" [] c = "v" -> "V" [] c = "w" -> "W" [] c = "x" -> "X"
          [] c = "y" -> "Y" [] c = "z" -> "Z"]

Upper(c) == IF c \in DOMAIN Fold THEN Fold[c] ELSE c

UpperLetters == {Fold[c] : c \in DOMAIN Fold}

\* [A-Z] under the flag i.
IsLetter(c) == Upper(c) \in UpperLetters

Digits == <<"0", "1", "2", "3", "4", "5", "6", "7", "8", "9">>

\* \d
IsDigit(c) == \E d \in DOMAIN Digits : Digits[d] = c

\* A literal of the pattern at position i of s, under the flag i.
LitAt(s, i, lit) ==
    /\ i + Len(lit) - 1 <= Len(s)
    /\ \A k \in 1..Len(lit) : Upper(Char(s, i + k - 1)) = Char(lit, k)

\* A given character at position i of s.
CharAt(s, i, c) == i <= Len(s) /\ Char(s, i) = c

RECURSIVE NoNewline(_, _)
\* .* from position i to the end: the dot matches no newline.
NoNewline(s, i) ==
    IF i > Len(s) THEN TRUE
    ELSE IF Char(s, i) = "\n" THEN FALSE
    ELSE NoNewline(s, i + 1)

RECURSIVE LetterRun(_, _)
\* [A-Z]+ at position i: how many letters it takes.
LetterRun(s, i) ==
    IF i <= Len(s) /\ IsLetter(Char(s, i)) THEN 1 + LetterRun(s, i + 1) ELSE 0

NoMatch == [ok |-> FALSE]

\* A value that is null.
Null == [t |-> "null"]

\* The alternatives of the groups, in the order the pattern tries them.
MonthForms ==
    <<"JANUARY", "JAN", "FEBRUARY", "FEB", "MARCH", "MAR", "APRIL", "APR",
      "MAY", "JUNE", "JUN", "JULY", "JUL", "AUGUST", "AUG",
      "SEPTEMBER", "SEP", "OCTOBER", "OCT", "NOVEMBER", "NOV", "DECEMBER", "DEC">>
RegionForms == <<"UK", "GB", "EW">>
ResForms == <<"BFC", "BFE", "BGC", "BSC">>

\* (?:_.*)?$ at position i.
SuffixAt(s, i) == i = Len(s) + 1 \/ (CharAt(s, i, "_") /\ NoNewline(s, i + 1))

\* How long the form f of forms is; 0 when f is no form.
FormLen(forms, f) == IF f = 0 THEN 0 ELSE Len(forms[f])

\* The first of the forms that is at position i of s and is followed by what
\* the character after must be ("" for any); 0 when none is.
FormAt(s, i, forms, after) ==
    LET First(hits) == IF hits = {} THEN 0 ELSE CHOOSE f \in hits : \A g \in hits : f <= g
    IN  First({f \in DOMAIN forms :
                /\ LitAt(s, i, forms[f])
                /\ after = "" \/ CharAt(s, i + Len(forms[f]), after)})

RECURSIVE ResFrom(_, _)
\* (?:[A-Z]+_)*?(?P<res>BFC|BFE|BGC|BSC)(?:_.*)?$ at position i: the fewest
\* noise words first.
ResFrom(s, i) ==
    LET Try(f, n) ==
            IF f # 0 /\ SuffixAt(s, i + FormLen(ResForms, f))
            THEN [ok |-> TRUE, res |-> SubSeq(s, i, i + FormLen(ResForms, f) - 1)]
            ELSE IF n > 0 /\ CharAt(s, i + n, "_") THEN ResFrom(s, i + n + 1)
            ELSE NoMatch
    IN  Try(FormAt(s, i, ResForms, ""), LetterRun(s, i))

RECURSIVE RegionFrom(_, _)
\* (?:[A-Z]+_)*?(?P<region>UK|GB|EW)_ and what follows it, at position i.
RegionFrom(s, i) ==
    LET Try(f, n) ==
            LET Then(rest) ==
                    IF f # 0 /\ rest.ok
                    THEN [ok |-> TRUE,
                          region |-> SubSeq(s, i, i + FormLen(RegionForms, f) - 1),
                          res |-> rest.res]
                    ELSE IF n > 0 /\ CharAt(s, i + n, "_") THEN RegionFrom(s, i + n + 1)
                    ELSE NoMatch
            IN  Then(ResFrom(s, i + FormLen(RegionForms, f) + 1))
    IN  Try(FormAt(s, i, RegionForms, "_"), LetterRun(s, i))

\* \d{n}_ at position i.
DigitsAt(s, i, n) ==
    /\ i + n <= Len(s)
    /\ \A k \in 0..(n - 1) : IsDigit(Char(s, i + k))
    /\ Char(s, i + n) = "_"

\* (?P<year>\d{2}(?:\d{2})?)_ and what follows it, at position i: four
\* digits before two.
YearFrom(s, i) ==
    LET Try(four, two) ==
            IF DigitsAt(s, i, 4) /\ four.ok
            THEN [ok |-> TRUE, year |-> SubSeq(s, i, i + 3),
                  region |-> four.region, res |-> four.res]
            ELSE IF DigitsAt(s, i, 2) /\ two.ok
            THEN [ok |-> TRUE, year |-> SubSeq(s, i, i + 1),
                  region |-> two.region, res |-> two.res]
            ELSE NoMatch
    IN  Try(RegionFrom(s, i + 5), RegionFrom(s, i + 3))

\* A mutant: the month is matched and not captured.
MonthFromUncaptured(s, i) ==
    LET Try(f) ==
            LET Then(with, without) ==
                    IF f # 0 /\ with.ok
                    THEN [ok |-> TRUE, month |-> Null,
                          year |-> with.year, region |-> with.region, res |-> with.res]
                    ELSE IF without.ok
                    THEN [ok |-> TRUE, month |-> Null,
                          year |-> without.year, region |-> without.region,
                          res |-> without.res]
                    ELSE NoMatch
            IN  Then(YearFrom(s, i + FormLen(MonthForms, f) + 1), YearFrom(s, i))
    IN  Try(FormAt(s, i, MonthForms, "_"))

\* (?:(?P<month>...)_)? and what follows it, at position i: with the month
\* before without it.
MonthFrom(s, i) ==
    LET Try(f) ==
            LET Then(with, without) ==
                    IF f # 0 /\ with.ok
                    THEN [ok |-> TRUE,
                          month |-> StrVal(SubSeq(s, i, i + FormLen(MonthForms, f) - 1)),
                          year |-> with.year, region |-> with.region, res |-> with.res]
                    ELSE IF without.ok
                    THEN [ok |-> TRUE, month |-> Null,
                          year |-> without.year, region |-> without.region,
                          res |-> without.res]
                    ELSE NoMatch
            IN  Then(YearFrom(s, i + FormLen(MonthForms, f) + 1), YearFrom(s, i))
    IN  Try(FormAt(s, i, MonthForms, "_"))

RECURSIVE PrefixFrom(_, _)
\* .*?_ and what follows it, at position i: the shortest run first.
PrefixFrom(s, i) ==
    LET Then(rest) ==
            IF i > Len(s) THEN NoMatch
            ELSE IF Char(s, i) = "_" /\ rest.ok THEN rest
            ELSE IF Char(s, i) = "\n" THEN NoMatch
            ELSE PrefixFrom(s, i + 1)
    IN  Then(MonthFrom(s, i + 1))

\* The pattern, anchored at both ends: NoMatch, or the text of its groups
\* month (1), year (2), region (3) and res (4).
pattern(s) ==
    IF LitAt(s, 1, "LAD") THEN PrefixFrom(s, 4)
    ELSE IF LitAt(s, 1, "LOCAL_AUTHORITY_DISTRICTS") THEN PrefixFrom(s, 26)
    ELSE NoMatch

(***************************************************************************)
(* The catalog page.  The page is modelled as the tree BeautifulSoup makes *)
(* of it: whether it has <ul id="servicesList">, and the <li> of that list,*)
(* each with its first <a> (its href and its text) or with none.           *)
(***************************************************************************)
MaxServices == 2      \* <li> entries of the services list
MaxRuns == 2          \* runs of the ingester one after the other

\* The names of services met on the page, with the five of to_skip.
ServiceNames ==
    { "LAD_DEC_2023_UK_BFC",
      "LAD_JUN_1921_EW_BGC",
      "LAD_PT_JUN_1921_EW_BGC",
      "LAD_DEC_2021_EW_BFE_RUC",
      "LAD_DEC_2024_EW_BFE_RUC",
      "LAD_Dec_1961_in_England_and_Wales_BFC_Boundaries_2022",
      "lad_dec_2023_uk_bfc",
      "lad_jun_1921_ew_bgc",
      "LAD_24_GB_BSC",
      "Local_Authority_Districts_December_2022_Boundaries_UK_BFE_V2",
      "LADS_1999_X1_2005_EW_BSC",
      "LAD_9999_EW_BSC",
      "LAD_DEC_2023",
      "LAD_202_UK_BFC",
      "Counties_DEC_2023_UK_BFC" }

ServiceHref(name, kind) == "/ESMARspQHYMw9BZ9/ArcGIS/rest/services/" \o name \o "/" \o kind

Link(href, text) == [a |-> TRUE, has_href |-> TRUE, href |-> href, text |-> text]
NoLink == [a |-> FALSE]
\* An <a> that has no href attribute.
Anchor(text) == [a |-> TRUE, has_href |-> FALSE, text |-> text]

ListItems ==
    {Link(ServiceHref(name, "FeatureServer"), name) : name \in ServiceNames}
    \cup {Link(ServiceHref("LAD_DEC_2023_UK_BFC", "MapServer"), "LAD_DEC_2023_UK_BFC"),
          NoLink, Anchor("LAD_DEC_2023_UK_BFC")}

PageWithList(items) == [services_list |-> TRUE, items |-> items]
PageWithoutList == [services_list |-> FALSE]

Pages == {PageWithoutList} \cup {PageWithList(items) : items \in SeqsUpTo(ListItems, MaxServices)}

\* The page of one service.
PageSample == PageWithList(<<Link(ServiceHref("LAD_DEC_2023_UK_BFC", "FeatureServer"),
                                  "LAD_DEC_2023_UK_BFC")>>)

\* The answers to the request of the page: any page with a 200, the sample
\* with every other status.
ArcgisResponses ==
    {Refused}
    \cup {Response(200, page) : page \in Pages}
    \cup {Response(st, PageSample) : st \in Statuses \ {200}}

ArcgisUrls == {ARCGIS_BASE_URL}

\* A mutant: raise_for_status is not called.
load_arcgis_data_unchecked(url, resp) ==
    IF resp.conn = "refused" THEN ConnectionError
    ELSE Return(resp.body)

\* requests.get, raise_for_status, response.text; a RequestException is
\* logged and raised again.
load_arcgis_data(url, resp) ==
    IF resp.conn = "refused" THEN ConnectionError
    ELSE IF IsErrorStatus(resp.status) THEN HTTPError(resp.status, url)
    ELSE Return(resp.body)

\* needle in text
Contains(text, needle) ==
    \E i \in 1..(Len(text) - Len(needle) + 1) : SubSeq(text, i, i + Len(needle) - 1) = needle

RECURSIVE FindServices(_, _)
\* The loop over the <li> of the list: li.find("a") is the first link of
\* the entry or None; link["href"] raises KeyError when the link has no
\* href; the text of the link is kept when its href has "FeatureServer".
FindServices(items, kept) ==
    IF items = <<>> THEN Return(kept)
    ELSE IF ~Head(items).a THEN FindServices(Tail(items), kept)
    ELSE IF ~Head(items).has_href THEN KeyError("href")
    ELSE IF Contains(Head(items).href, "FeatureServer")
    THEN FindServices(Tail(items), Append(kept, Head(items).text))
    ELSE FindServices(Tail(items), kept)

\* The outcome of the call: the kept texts in the order of the page, none
\* when the page has no services list.
parse_html_for_services(html_content) ==
    IF ~html_content.services_list THEN Return(<<>>)
    ELSE FindServices(html_content.items, <<>>)

(***************************************************************************)
(* _process_and_save                                                       *)
(***************************************************************************)
to_skip ==
    { "LAD_Dec_1961_in_England_and_Wales_BFC_Boundaries_2022",
      "LAD_JUN_1921_EW_BGC",
      "LAD_PT_JUN_1921_EW_BGC",
      "LAD_DEC_2021_EW_BFE_RUC",
      "LAD_DEC_2024_EW_BFE_RUC" }

DigitValue(c) == (CHOOSE d \in DOMAIN Digits : Digits[d] = c) - 1

RECURSIVE ParseInt(_)
\* The integer that a text of digits writes.
ParseInt(s) ==
    IF s = "" THEN 0
    ELSE 10 * ParseInt(SubSeq(s, 1, Len(s) - 1)) + DigitValue(Char(s, Len(s)))

\* cast(pl.Int16): the cast is strict, a value out of range fails it.
FitsInt16(n) == -(2^15) <= n /\ n < 2^15

InvalidOperationError(msg) == Raise("InvalidOperationError", <<msg>>, NoCause)
FileNotFoundError(path) ==
    Raise("FileNotFoundError", <<"No such file or directory: ", path>>, NoCause)

\* The pattern applied to the column arcgis_id: every value of the column
\* is the name of a service.
Groups == [arcgis_id \in ServiceNames |-> pattern(arcgis_id)]

\* A mutant: a name met twice is kept once.
KeptUnique(services) ==
    LET first == SelectSeq([i \in 1..Len(services) |-> i],
                           LAMBDA i : /\ Groups[services[i]].ok
                                      /\ services[i] \notin to_skip
                                      /\ \A j \in 1..(i - 1) : services[j] # services[i])
    IN  [k \in 1..Len(first) |-> services[first[k]]]

\* A mutant: the names to skip are compared without regard to case.
KeptFolded(services) ==
    SelectSeq(services,
              LAMBDA arcgis_id :
                /\ Groups[arcgis_id].ok
                /\ \A skip \in to_skip :
                        [i \in 1..Len(skip) |-> Upper(Char(skip, i))]
                            # [i \in 1..Len(arcgis_id) |-> Upper(Char(arcgis_id, i))])

\* A mutant: nothing is skipped.
KeptUnskipped(services) ==
    SelectSeq(services, LAMBDA arcgis_id : Groups[arcgis_id].ok)

\* filter: str.contains(pattern) and not is_in(to_skip).
Kept(services) ==
    SelectSeq(services, LAMBDA arcgis_id : Groups[arcgis_id].ok /\ arcgis_id \notin to_skip)

\* A mutant: a year of two digits is taken for a year of this century.
ClassifiedExpanded(arcgis_id) ==
    LET Row(groups) ==
            [arcgis_id |-> arcgis_id,
             geography |-> "LAD",
             year |-> IF Len(groups.year) = 2 THEN 2000 + ParseInt(groups.year)
                      ELSE ParseInt(groups.year),
             month |-> groups.month,
             region |-> groups.region,
             resolution |-> groups.res]
    IN  Row(Groups[arcgis_id])

\* with_columns: the literal "LAD" and the groups of the pattern.
Classified(arcgis_id) ==
    LET Row(groups) ==
            [arcgis_id |-> arcgis_id,
             geography |-> "LAD",
             year |-> ParseInt(groups.year),
             month |-> groups.month,
             region |-> groups.region,
             resolution |-> groups.res]
    IN  Row(Groups[arcgis_id])

\* A line of the CSV: a null is an empty field.
CsvLine(row) ==
    Cat(<<row.arcgis_id, ",", row.geography, ",", ToString(row.year), ",",
          IF row.month = Null THEN "" ELSE row.month.s, ",",
          row.region, ",", row.resolution>>)

ArcgisHeader == "arcgis_id,geography,year,month,region,resolution"

\* The file that write_csv makes of a frame.
CsvFile(df) == [state |-> "file", lines |-> <<ArcgisHeader>> \o [i \in 1..Len(df) |-> CsvLine(df[i])]]

\* The directory of the output path is not there.
NoDirectory == [state |-> "nodir"]

\* A file of an earlier version of the catalog.
OldFile == CsvFile(<<Classified("LAD_24_GB_BSC")>>)

\* A mutant: the rows are added to the file that is there.
WriteCsvAppend(disk_file, df) ==
    IF disk_file.state = "file"
    THEN [state |-> "file", lines |-> disk_file.lines \o Tail(CsvFile(df).lines)]
    ELSE CsvFile(df)

\* df.write_csv(DEFAULT_OUTPUT_PATH): the file is made or overwritten.
WriteCsv(disk_file, df) == CsvFile(df)

\* [ret, df, file, out] of the call, on the given disk.
process_and_save(services, disk_file, null_ok) ==
    LET WithColumns(kept) == [i \in 1..Len(kept) |-> Classified(kept[i])]
        Save(height, df) ==
            IF services = <<>> /\ ~null_ok
            THEN [ret |-> InvalidOperationError("expected String type, got: null"),
                  df |-> <<>>, file |-> disk_file, out |-> <<height>>]
            ELSE IF \E i \in DOMAIN df : ~FitsInt16(df[i].year)
            THEN [ret |-> InvalidOperationError("conversion from str to i16 failed"),
                  df |-> <<>>, file |-> disk_file, out |-> <<height>>]
            ELSE IF disk_file.state = "nodir"
            THEN [ret |-> FileNotFoundError(DEFAULT_OUTPUT_PATH),
                  df |-> df, file |-> disk_file, out |-> <<height>>]
            ELSE [ret |-> Return(Len(df)), df |-> df, file |-> WriteCsv(disk_file, df),
                  out |-> <<height, ToString(Len(df))>>]
    IN  Save(ToString(Len(services)), WithColumns(Kept(services)))

(***************************************************************************)
(* ingest_arcgis_services                                                  *)
(***************************************************************************)
\* Every exception is logged and raised again.
ingest_arcgis_services(url, resp, disk_file, null_ok) ==
    LET Save(services, saved) ==
            [ret |-> saved.ret, services |-> services, df |-> saved.df,
             file |-> saved.file, out |-> saved.out]
        Parse(services) ==
            IF services.kind = "raise"
            THEN [ret |-> services, services |-> <<>>, df |-> <<>>,
                  file |-> disk_file, out |-> <<>>]
            ELSE Save(services.value,
                      process_and_save(services.value, disk_file, null_ok))
        Load(html_content) ==
            IF html_content.kind = "raise"
            THEN [ret |-> html_content, services |-> <<>>, df |-> <<>>,
                  file |-> disk_file, out |-> <<>>]
            ELSE Parse(parse_html_for_services(html_content.value))
    IN  Load(load_arcgis_data(url, resp))

\* One run: the page is requested and answered with resp.
Ingest(url, resp) ==
    LET Run(run) ==
            /\ args' = [url |-> url]
            /\ net' = Append(net, Get_(url))
            /\ response' = resp
            /\ loc' = [services |-> run.services, df |-> run.df]
            /\ ret' = run.ret
            /\ file' = run.file
            /\ out' = out \o run.out
            /\ fn' = "ingest_arcgis_services"
            /\ pc' = "done"
            /\ UNCHANGED null_dtype_ok
    IN  Run(ingest_arcgis_services(url, resp, file, null_dtype_ok))

IngestArcgisServices ==
    /\ pc = "idle"
    /\ \E url \in ArcgisUrls, resp \in ArcgisResponses : Ingest(url, resp)

\* The ingester is run again and the server answers as before.
IngestAgain ==
    /\ pc = "done"
    /\ fn = "ingest_arcgis_services"
    /\ Len(net) < MaxRuns
    /\ Ingest(args.url, response)

ArcgisInit ==
    /\ pc = "idle"
    /\ fn = "none"
    /\ args = [url |-> ARCGIS_BASE_URL]
    /\ net = <<>>
    /\ response = NoResponse
    /\ loc = [services |-> <<>>, df |-> <<>>]
    /\ ret = NoOutcome
    /\ out = <<>>
    /\ file \in {NoDirectory, NoFile, OldFile}
    /\ null_dtype_ok \in BOOLEAN

ArcgisNext ==
    \/ IngestArcgisServices
    \/ IngestAgain

ArcgisSpec == ArcgisInit /\ [][ArcgisNext]_vars

(***************************************************************************)
(* The process.                                                            *)
(***************************************************************************)
Init ==
    /\ pc = "idle"
    /\ fn = "none"
    /\ args = [kwargs |-> <<>>]
    /\ net = <<>>
    /\ response = NoResponse
    /\ loc = NoLocals
    /\ ret = NoOutcome
    /\ out = <<>>
    /\ file = NoFile
    /\ null_dtype_ok = TRUE

Next ==
    \/ BuildQuery
    \/ LoadOns
    \/ ListTables
    \/ ListDataSources
    \/ GetOverview
    \/ ExtractStart
    \/ ExtractRequest
    \/ ExtractStep
    \/ CreateDataset

Spec == Init /\ [][Next]_vars

(***************************************************************************)
(* C1: build_url_query_string returns "" for the empty mapping and         *)
(* otherwise "?" followed by the tokens joined with "&": keys in mapping   *)
(* order, one token key=value per scalar, one token key=item per element   *)
(* of a list in the list's order (none for an empty list), values verbatim.*)
(***************************************************************************)
\* The tokens of one parameter.
TokensOf(p) ==
    IF p.value.t = "list"
    THEN [j \in 1..Len(p.value.items) |-> p.key \o "=" \o Format(p.value.items[j])]
    ELSE <<p.key \o "=" \o Format(p.value)>>

RECURSIVE Amp(_)
\* Every token but the first is preceded by "&".
Amp(tokens) ==
    IF tokens = <<>> THEN ""
    ELSE "&" \o Head(tokens) \o Amp(Tail(tokens))

RECURSIVE Flatten(_)
Flatten(ss) == IF ss = <<>> THEN <<>> ELSE Head(ss) \o Flatten(Tail(ss))

ExpectedQuery(kw) ==
    LET tokens == Flatten([i \in 1..Len(kw) |-> TokensOf(kw[i])])
    IN  IF kw = <<>> THEN ""
        ELSE IF tokens = <<>> THEN "?"
        ELSE "?" \o Head(tokens) \o Amp(Tail(tokens))

C1_QueryString ==
    (pc = "done" /\ fn = "build_url_query_string")
        => ret = Return(ExpectedQuery(args.kwargs))

\* A list of two elements after a scalar is expanded into two tokens.
C1_Witness ==
    /\ pc = "done" /\ fn = "build_url_query_string"
    /\ Len(args.kwargs) = 2
    /\ args.kwargs[1].value.t # "list"
    /\ args.kwargs[2].value.t = "list"
    /\ Len(args.kwargs[2].value.items) = 2
    /\ ret = Return("?geography=a b&c=d&select=geography_name&select=obs value&x=1")

(***************************************************************************)
(* Words of the claims about load_ons, stated on the response served.      *)
(***************************************************************************)
Range(s) == {s[i] : i \in DOMAIN s}

LoadOnsDone == pc = "done" /\ fn = "load_ons"
Answered == response.conn = "ok"
Served == response

ClientOrServerError(status) == status \div 100 \in {4, 5}
SuccessStatus(status) == status \div 100 = 2

\* The body's text begins with the document marker itself.
BeginsWithMarker(text) ==
    /\ Len(text) >= Len(DoctypeHtml)
    /\ \A i \in 1..Len(DoctypeHtml) : text[i] = DoctypeHtml[i]

\* The body is no error page: no marker after the leading white space.
NotAnErrorPage(text) ==
    \A k \in 0..Len(text) :
        (\A i \in 1..k : IsSpace(text[i])) => ~BeginsWithMarker(SubSeq(text, k + 1, Len(text)))

(***************************************************************************)
(* C2: load_ons fails with HTTPError on every response whose status is a   *)
(* client or server error, whatever its body; it returns no table and      *)
(* makes no second request.                                                *)
(***************************************************************************)
C2_HttpError ==
    (LoadOnsDone /\ Answered /\ ClientOrServerError(Served.status))
        => /\ ret.kind = "raise"
           /\ ret.class = "HTTPError"
           /\ Len(net) = 1

\* A 404 whose body is an HTML page, and a 500 whose body is a good table.
C2_Witness ==
    /\ LoadOnsDone /\ Answered
    /\ \/ Served.status = 404 /\ BeginsWithMarker(Served.body.text)
       \/ Served.status = 500 /\ Served.body.csv.ok
    /\ ret.kind = "raise" /\ ret.class = "HTTPError"

(***************************************************************************)
(* C3: on a success status, a body whose text begins with the HTML         *)
(* document marker makes load_ons fail with the invalid-dataset ValueError,*)
(* whose message names list_tables; no table is returned.                  *)
(***************************************************************************)
C3_InvalidDataset ==
    (LoadOnsDone /\ Answered /\ SuccessStatus(Served.status)
        /\ BeginsWithMarker(Served.body.text))
        => /\ ret.kind = "raise"
           /\ ret.class = "ValueError"
           /\ "list_tables" \in Range(ret.msg)
           /\ ret.cause = NoCause

C3_Witness ==
    /\ LoadOnsDone /\ Answered
    /\ Served.status = 200
    /\ Served.body.text = DoctypeHtml \o HtmlTag
    /\ Served.body.csv.ok
    /\ ret = InvalidDatasetError

(***************************************************************************)
(* C4, as claimed: on a success status, a body that is no HTML error page  *)
(* and cannot be parsed makes load_ons fail with a failure of a kind other *)
(* than that of the HTTP failure and that of the invalid-dataset failure,  *)
(* wrapping the parse failure.                                             *)
(***************************************************************************)
HttpErrorKind == HTTPError(404, "").class
InvalidDatasetErrorKind == InvalidDatasetError.class

UnparseableTable ==
    /\ LoadOnsDone /\ Answered /\ SuccessStatus(Served.status)
    /\ NotAnErrorPage(Served.body.text)
    /\ ~Served.body.csv.ok

C4_DistinctKind ==
    UnparseableTable
        => /\ ret.kind = "raise"
           /\ ret.class \notin {HttpErrorKind, InvalidDatasetErrorKind}
           /\ ret.cause = Served.body.csv.error

(***************************************************************************)
(* C4, amended: the failure is a ValueError, the class of the              *)
(* invalid-dataset failure too, told from it by its message and by its     *)
(* cause: the message is "Failed to parse CSV data: " and the text of the  *)
(* parse failure, which is chained as the cause.  No table is returned.    *)
(***************************************************************************)
C4_CsvParseError ==
    UnparseableTable
        => /\ ret.kind = "raise"
           /\ ret.class = "ValueError"
           /\ ret.class # HttpErrorKind
           /\ ret.msg = <<"Failed to parse CSV data: ">> \o Served.body.csv.error.msg
           /\ ret.msg # InvalidDatasetError.msg
           /\ ret.cause = Served.body.csv.error
           /\ ret.cause # InvalidDatasetError.cause

\* A lower-case doctype is no error page to the code: the body is parsed.
C4_Witness ==
    /\ UnparseableTable
    /\ Served.body.text = LowerDoctype \o HtmlTag
    /\ Served.body.csv = ParserError
    /\ ret.kind = "raise" /\ ret.cause.class = "ParserError"

(***************************************************************************)
(* C5: a parsed table of exactly 25,000 rows is returned whole, and the    *)
(* truncation warning is printed.                                          *)
(***************************************************************************)
ExactlyTruncated ==
    /\ LoadOnsDone /\ Answered /\ SuccessStatus(Served.status)
    /\ NotAnErrorPage(Served.body.text)
    /\ Served.body.csv.ok
    /\ Served.body.csv.table.nrows = 25000

C5_TruncationWarning ==
    ExactlyTruncated
        => /\ ret = Return(Served.body.csv.table)
           /\ ret.value.nrows = 25000
           /\ TruncationWarning \in Range(out)

C5_Witness ==
    /\ ExactlyTruncated
    /\ Served.body.text = CsvHeader
    /\ out[Len(out)] = TruncationWarning
    /\ ret.kind = "return"

(***************************************************************************)
(* C6: every call of load_ons issues exactly one GET, to                    *)
(* {base_url}/dataset/{dataset_id}.data.csv followed by the query string   *)
(* of the keyword filters, whatever the outcome.                           *)
(***************************************************************************)
C6_SingleGet ==
    LoadOnsDone
        => /\ Len(net) = 1
           /\ net[1].method = "GET"
           /\ net[1].url = Cat(<<args.base_url, "/dataset/", args.dataset_id, ".data.csv",
                                 build_url_query_string(args.kwargs)>>)

\* The request of test_load_ons_with_select's shape, answered by a failure.
C6_Witness ==
    /\ LoadOnsDone
    /\ net[1].url = "https://www.nomisweb.co.uk/api/v01/dataset/NM_1_1.data.csv"
                    \o "?time=latest&select=geography_name&select=obs_value"
    /\ ret.kind = "raise"

(***************************************************************************)
(* Words of the claims about list_data_sources.                            *)
(***************************************************************************)
SourcesDone == pc = "done" /\ fn = "list_data_sources"

\* The response is a sources document every census item of which has items.
SourcesServed ==
    /\ SourcesDone /\ Answered /\ SuccessStatus(Served.status)
    /\ Served.body.json
    /\ Has(Served.body.data, "contenttype")
    /\ \A i \in DOMAIN Served.body.data.contenttype.item :
        LET it == Served.body.data.contenttype.item[i]
        IN  it.id = "census" => Has(it, "item")

TopItems == Served.body.data.contenttype.item

\* The nested items of the census items, in the order of the document.
CensusItems ==
    Flatten([i \in DOMAIN TopItems |->
        IF TopItems[i].id = "census" THEN TopItems[i].item ELSE <<>>])

NonCensusItems == SelectSeq(TopItems, LAMBDA it : it.id # "census")

\* The positions of a sequence of items or of descriptors that hold "census".
CensusIds(items) == {i \in DOMAIN items : items[i].id = "census"}
CensusRows(rows) == {i \in DOMAIN rows : rows[i].source_id = "census"}

(***************************************************************************)
(* C7, as claimed: no descriptor of the result has source_id "census".     *)
(***************************************************************************)
C7_NoCensusId ==
    (SourcesDone /\ ret.kind = "return")
        => \A i \in DOMAIN ret.value : ret.value[i].source_id # "census"

(***************************************************************************)
(* C7, amended: the census category is never listed itself, only its       *)
(* nested items: no descriptor comes from a top-level item whose id is     *)
(* "census", and a descriptor has source_id "census" only for a nested     *)
(* item of the census category that itself has the id "census".            *)
(***************************************************************************)
C7_CensusOnlyFromChildren ==
    SourcesServed
        => /\ ret.kind = "return"
           /\ Cardinality(CensusRows(ret.value)) = Cardinality(CensusIds(CensusItems))
           /\ \A i \in DOMAIN ret.value :
                ret.value[i].source_id = "census"
                    => \E j \in DOMAIN CensusItems :
                        /\ CensusItems[j].id = "census"
                        /\ ret.value[i].source_name = CensusItems[j].name

\* A census item with a nested item is listed by that item alone.
C7_Witness ==
    /\ SourcesServed
    /\ Len(TopItems) = 2
    /\ TopItems[1].id = "census" /\ Len(TopItems[1].item) = 1
    /\ TopItems[1].item[1].id = "census_2011"
    /\ TopItems[2].id = "jsa"
    /\ Len(ret.value) = 2
    /\ \A i \in DOMAIN ret.value : ret.value[i].source_id # "census"

(***************************************************************************)
(* C8: the result lists, in the order of the document, one descriptor per  *)
(* top-level item that is not the census and one per nested item of each   *)
(* census item; their number is the sum of the two counts.                 *)
(***************************************************************************)
DescriptorOf(item, default) ==
    [source_id |-> item.id,
     source_name |-> item.name,
     source_description |-> IF Has(item, "description") THEN item.description ELSE default]

ExpectedSources ==
    Flatten([i \in DOMAIN TopItems |->
        IF TopItems[i].id # "census"
        THEN <<DescriptorOf(TopItems[i], "")>>
        ELSE [j \in DOMAIN TopItems[i].item |->
                DescriptorOf(TopItems[i].item[j], "No Description")]])

C8_Flattening ==
    SourcesServed
        => /\ ret = Return(ExpectedSources)
           /\ Len(ret.value) = Len(NonCensusItems) + Len(CensusItems)

\* One source and a census of two: three descriptors.
C8_Witness ==
    /\ SourcesServed
    /\ Len(NonCensusItems) = 1
    /\ Len(TopItems) = 2 /\ TopItems[2].id = "census"
    /\ Len(CensusItems) = 2 /\ CensusItems[1] # CensusItems[2]
    /\ Len(ret.value) = 3
    /\ ret.value[1].source_id = "jsa"

(***************************************************************************)
(* C9, as claimed: list_tables, list_data_sources and get_overview fail    *)
(* with HTTPError whenever the status of the response is not 2xx.          *)
(***************************************************************************)
CatalogDone ==
    pc = "done" /\ fn \in {"list_tables", "list_data_sources", "get_overview"}

C9_HttpErrorNot2xx ==
    (CatalogDone /\ Answered /\ ~SuccessStatus(Served.status))
        => (ret.kind = "raise" /\ ret.class = "HTTPError")

(***************************************************************************)
(* C9, amended: each of the three fails with HTTPError when the status of  *)
(* the response is a client or server error (4xx, 5xx); the error reaches  *)
(* the caller, no result is returned and no second request is made.        *)
(***************************************************************************)
C9_HttpErrorPropagates ==
    (CatalogDone /\ Answered /\ ClientOrServerError(Served.status))
        => /\ ret.kind = "raise"
           /\ ret.class = "HTTPError"
           /\ Len(net) = 1

\* test_get_overview_invalid_id: a 404, here with a good document as its body.
C9_Witness ==
    /\ pc = "done" /\ fn = "get_overview"
    /\ args.dataset_id = "INVALID_ID"
    /\ Answered /\ Served.status = 404 /\ Served.body.json
    /\ ret.kind = "raise" /\ ret.class = "HTTPError"

(***************************************************************************)
(* Words of the claims about extract_data_source: the dataset processed    *)
(* last, the overview served for it and the row appended for it.           *)
(***************************************************************************)
Processed ==
    /\ fn = "extract_data_source"
    /\ pc \in {"loop", "done"}
    /\ loc.sources_list # <<>>

LastRow == loc.sources_list[Len(loc.sources_list)]

\* The overview request of the last dataset was answered by a document.
OverviewServed ==
    /\ Processed /\ Answered /\ SuccessStatus(Served.status)
    /\ Served.body.json

Overview == Served.body.data

\* The overview has a first key-family entry.
HasFirstKeyFamily ==
    /\ Has(Overview, "structure")
    /\ Has(Overview.structure, "keyfamilies")
    /\ Has(Overview.structure.keyfamilies, "keyfamily")
    /\ Overview.structure.keyfamilies.keyfamily.t = "list"
    /\ Overview.structure.keyfamilies.keyfamily.items # <<>>

FirstKeyFamily == Overview.structure.keyfamilies.keyfamily.items[1]

HasAnnotationList ==
    /\ Has(FirstKeyFamily, "annotations")
    /\ Has(FirstKeyFamily.annotations, "annotation")
    /\ FirstKeyFamily.annotations.annotation.t = "list"

\* The annotations of the first key-family entry.
AnnotationsOfFirst == FirstKeyFamily.annotations.annotation.items

IsSourceAnnotation(a) ==
    a.t = "dict" /\ Has(a.d, "annotationtitle") /\ a.d.annotationtitle = SourcesTitle

HasText(a) == Has(a.d, "annotationtext") /\ a.d.annotationtext # ""

\* The positions of the annotations titled "contenttype/sources" ...
Titled(annotations) == {i \in DOMAIN annotations : IsSourceAnnotation(annotations[i])}
\* ... and of those of them that have a text.
TitledWithText(annotations) == {i \in Titled(annotations) : HasText(annotations[i])}

Min(S) == CHOOSE i \in S : \A j \in S : i <= j

(***************************************************************************)
(* C10, as claimed: when the annotations of the first key-family entry of  *)
(* a dataset's overview have one titled "contenttype/sources" with a text, *)
(* the row's sourceName is the text of the first such annotation: of the   *)
(* first one titled so that has a text or, read the other way, of the      *)
(* first one titled so.                                                    *)
(***************************************************************************)
C10_FirstAnnotationWithText ==
    (/\ OverviewServed /\ HasFirstKeyFamily /\ HasAnnotationList
     /\ TitledWithText(AnnotationsOfFirst) # {})
        => \/ LastRow.sourceName =
                AnnotationsOfFirst[Min(TitledWithText(AnnotationsOfFirst))].d.annotationtext
           \/ LastRow.sourceName =
                Get(AnnotationsOfFirst[Min(Titled(AnnotationsOfFirst))].d, "annotationtext", "")

(***************************************************************************)
(* C10, amended: when the first key-family entry of a dataset's overview   *)
(* has a list of annotations and the first annotation of the list titled   *)
(* "contenttype/sources" has a text, the row's sourceName is that text,    *)
(* whether or not there is a sender contact name.                          *)
(***************************************************************************)
C10_AnnotationFirst ==
    (/\ OverviewServed /\ HasFirstKeyFamily /\ HasAnnotationList
     /\ Titled(AnnotationsOfFirst) # {}
     /\ HasText(AnnotationsOfFirst[Min(Titled(AnnotationsOfFirst))]))
        => /\ LastRow.sourceName =
                AnnotationsOfFirst[Min(Titled(AnnotationsOfFirst))].d.annotationtext
           /\ net[Len(net)].url = OverviewUrl(args.base_url, LastRow.id)

\* Two titled annotations after another one, and a contact name: the text of
\* the first titled one is the source.
C10_Witness ==
    /\ OverviewServed /\ HasFirstKeyFamily /\ HasAnnotationList
    /\ Len(AnnotationsOfFirst) = 2
    /\ AnnotationsOfFirst[1] = Annotation(SourcesTitle, "Census Office")
    /\ AnnotationsOfFirst[2] = Annotation(SourcesTitle, "Office for National Statistics")
    /\ HasContactName(Overview)
    /\ Overview.structure.header.sender.contact.name = "Nomis"
    /\ LastRow.sourceName = "Census Office"
    /\ Len(loc.sources_list) = 2

(***************************************************************************)
(* C11: whichever way path 1 yields nothing (missing keys, an empty        *)
(* key-family list, an empty annotation list, no annotation titled         *)
(* "contenttype/sources"), path 2 is attempted: a sender contact name that *)
(* is present is the row's sourceName; and sourceName is "" only when both *)
(* paths yield nothing or an exception occurs.                             *)
(***************************************************************************)
\* The ways of path 1 to yield nothing that the claim lists.
MissingKeys ==
    \/ ~Has(Overview, "structure")
    \/ ~Has(Overview.structure, "keyfamilies")
    \/ ~Has(Overview.structure.keyfamilies, "keyfamily")
    \/ Overview.structure.keyfamilies.keyfamily.t # "list"

EmptyKeyFamilyList == ~MissingKeys /\ Overview.structure.keyfamilies.keyfamily.items = <<>>

PathOneYieldsNothing ==
    \/ MissingKeys
    \/ EmptyKeyFamilyList
    \/ HasFirstKeyFamily /\ ~HasAnnotationList
    \/ HasFirstKeyFamily /\ HasAnnotationList /\ Titled(AnnotationsOfFirst) = {}

ContactName == Overview.structure.header.sender.contact.name

\* The overview request of the last dataset raised: refused, answered with
\* a client or server error, or not with a document.
OverviewRaised ==
    /\ Processed
    /\ \/ ~Answered
       \/ ClientOrServerError(Served.status)
       \/ ~Served.body.json

\* It returned a document.
OverviewDecoded == Processed /\ ~OverviewRaised

C11_FallbackToContact ==
    /\ (OverviewDecoded /\ PathOneYieldsNothing /\ HasContactName(Overview))
            => LastRow.sourceName = ContactName
    /\ (Processed /\ LastRow.sourceName = "")
            => \/ OverviewRaised
               \/ /\ OverviewDecoded
                  /\ \/ PathOneYieldsNothing
                     \/ ~HasText(AnnotationsOfFirst[Min(Titled(AnnotationsOfFirst))])
                  /\ HasContactName(Overview) => ContactName = ""

(***************************************************************************)
(* C12: extract_data_source never raises and never drops a row because of  *)
(* a per-dataset failure: whichever overview requests or extractions       *)
(* raise, there is exactly one row per non-excluded id, in the order of    *)
(* the dataset list; the row of a failing id has sourceName ""; the rows   *)
(* of the other ids are what their own overviews give, and no later        *)
(* failure changes a row already made.                                     *)
(***************************************************************************)
\* The ids of the dataset list that are not excluded, in its order.
NonExcludedIds ==
    LET kept == SelectSeq(loc.nomis_tables,
                          LAMBDA t : t.id # "NM_45_1" /\ t.id # "NM_2064_1")
    IN  [i \in 1..Len(kept) |-> kept[i].id]

RowIds(rows) == [i \in 1..Len(rows) |-> rows[i].id]

\* The last dataset failed: its request or the decoding raised, or the
\* extraction did.
DatasetFailed == OverviewRaised \/ (OverviewDecoded /\ EmptyKeyFamilyList)

\* What the overview of the last dataset gives when nothing fails.
SourceOfOverview ==
    IF /\ HasFirstKeyFamily /\ HasAnnotationList
       /\ Titled(AnnotationsOfFirst) # {}
       /\ HasText(AnnotationsOfFirst[Min(Titled(AnnotationsOfFirst))])
    THEN AnnotationsOfFirst[Min(Titled(AnnotationsOfFirst))].d.annotationtext
    ELSE IF HasContactName(Overview) THEN ContactName ELSE ""

\* The loop has been entered: the dataset list was fetched and has an id to
\* process.
InLoop == fn = "extract_data_source" /\ Len(net) > 1

C12_RowPerDataset ==
    InLoop =>
        /\ RowIds(loc.sources_list) \o loc.filtered = NonExcludedIds
        /\ Len(net) = 1 + Len(loc.sources_list) + (IF pc = "wait" THEN 1 ELSE 0)
        /\ pc = "done" => ret = Return(loc.sources_list) /\ loc.filtered = <<>>
        /\ pc # "done" => ret = NoOutcome
        /\ (Processed /\ DatasetFailed) => LastRow.sourceName = ""
        /\ (Processed /\ ~DatasetFailed) => LastRow.sourceName = SourceOfOverview

\* A step of the loop adds one row and leaves the rows already made alone.
C12_RowsKept ==
    InLoop =>
        /\ Len(loc'.sources_list) \in {Len(loc.sources_list), Len(loc.sources_list) + 1}
        /\ SubSeq(loc'.sources_list, 1, Len(loc.sources_list)) = loc.sources_list
        /\ pc = "wait" => Len(loc'.sources_list) = Len(loc.sources_list) + 1

C12_NeverDropsARow == [](C12_RowPerDataset) /\ [][C12_RowsKept]_vars

\* Two datasets: the first one failed, the second one has its source.
C12_Witness ==
    /\ InLoop /\ pc = "done"
    /\ Len(ret.value) = 2
    /\ ret.value[1].sourceName = ""
    /\ Len(out) = 3
    /\ ~DatasetFailed
    /\ ret.value[2].sourceName = "Office for National Statistics"

(***************************************************************************)
(* C13: extract_data_source drops exactly the ids "NM_45_1" and            *)
(* "NM_2064_1": the result has no row for either and no overview is        *)
(* requested for either, and every other id of the dataset list has its    *)
(* overview requested and its row in the result.                           *)
(***************************************************************************)
TheTwoIds == {"NM_45_1", "NM_2064_1"}

ListedIds == {loc.nomis_tables[i].id : i \in DOMAIN loc.nomis_tables}

\* The urls requested after the dataset list.
OverviewRequests == {net[i].url : i \in 2..Len(net)}

C13_DropsTheTwoIds ==
    fn = "extract_data_source" =>
        /\ \A id \in TheTwoIds :
            /\ OverviewUrl(args.base_url, id) \notin OverviewRequests
            /\ \A i \in DOMAIN loc.sources_list : loc.sources_list[i].id # id
        /\ (pc = "done" /\ ret.kind = "return") =>
            /\ {ret.value[i].id : i \in DOMAIN ret.value} = ListedIds \ TheTwoIds
            /\ OverviewRequests =
                {OverviewUrl(args.base_url, id) : id \in ListedIds \ TheTwoIds}

\* A list of an excluded id and another one: one request, one row.
C13_Witness ==
    /\ fn = "extract_data_source" /\ pc = "done" /\ ret.kind = "return"
    /\ RowIds(loc.nomis_tables) = <<"NM_2064_1", "NM_1_1">>
    /\ RowIds(ret.value) = <<"NM_1_1">>
    /\ Len(net) = 2

(***************************************************************************)
(* C14: create_nomis_tables_dataset preserves every row of the dataset     *)
(* list: whatever list_tables returns and whatever extract_data_source     *)
(* returns (rows for fewer ids, for other ids, for no id at all, with      *)
(* empty source names), the call returns a table in which each dataset of  *)
(* the list appears with its id and name; a dataset that has no row in the *)
(* sources is kept with a null source; no row is dropped.                  *)
(***************************************************************************)
\* Both calls have returned their frames.
CreateMerged ==
    /\ fn = "create_nomis_tables_dataset" /\ pc = "done"
    /\ "sources" \in DOMAIN loc

IdAndName(rows) == [i \in 1..Len(rows) |-> [id |-> rows[i].id, name |-> rows[i].name]]

\* The source that the sources give to a dataset: null when they have no
\* row of its id.
SourceFor(id) ==
    IF \E j \in DOMAIN loc.sources : loc.sources[j].id = id
    THEN StrVal(loc.sources[CHOOSE j \in DOMAIN loc.sources : loc.sources[j].id = id].sourceName)
    ELSE NaN

C14_KeepsEveryDataset ==
    CreateMerged =>
        /\ ret.kind = "return"
        /\ IdAndName(ret.value) = loc.nomis_tables
        /\ \A i \in DOMAIN ret.value : ret.value[i].sourceName = SourceFor(ret.value[i].id)

(***************************************************************************)
(* The classification pattern as the specification words it, on the words  *)
(* of an identifier, the parts that "_" separates: a prefix that begins    *)
(* with LAD or LOCAL_AUTHORITY_DISTRICTS, an optional month, a year of two *)
(* or four digits, noise words, a region, noise words, a resolution, and   *)
(* any suffix; letters in either case.  The month being optional, and the  *)
(* prefix free to end anywhere, it has no part in whether a name matches.  *)
(***************************************************************************)
RECURSIVE Words(_)
Words(s) ==
    IF \A i \in 1..Len(s) : Char(s, i) # "_" THEN <<s>>
    ELSE LET i == CHOOSE i \in 1..Len(s) :
                    Char(s, i) = "_" /\ \A j \in 1..(i - 1) : Char(s, j) # "_"
         IN  <<SubSeq(s, 1, i - 1)>> \o Words(SubSeq(s, i + 1, Len(s)))

UpperText(s) == Cat([i \in 1..Len(s) |-> Upper(Char(s, i))])

BeginsWith(s, t) == Len(s) >= Len(t) /\ SubSeq(s, 1, Len(t)) = t

RegionWords == {"UK", "GB", "EW"}
ResolutionWords == {"BFC", "BFE", "BGC", "BSC"}

IsYearWord(w) == Len(w) \in {2, 4} /\ \A i \in 1..Len(w) : IsDigit(Char(w, i))
IsNoiseWord(w) == Len(w) >= 1 /\ \A i \in 1..Len(w) : IsLetter(Char(w, i))
IsRegionWord(w) == UpperText(w) \in RegionWords
IsResolutionWord(w) == UpperText(w) \in ResolutionWords

\* The first word that may follow the prefix.
AfterPrefix(s) ==
    IF BeginsWith(UpperText(s), "LOCAL_AUTHORITY_DISTRICTS") THEN 4
    ELSE IF BeginsWith(UpperText(s), "LAD") THEN 2
    ELSE Len(s) + 2

\* The words of every name, and what each of them can be.
WordsOf == [s \in ServiceNames |-> Words(s)]
YearWords == {k \in UNION {{WordsOf[s][i] : i \in DOMAIN WordsOf[s]} : s \in ServiceNames} : IsYearWord(k)}
NoiseWords == {k \in UNION {{WordsOf[s][i] : i \in DOMAIN WordsOf[s]} : s \in ServiceNames} : IsNoiseWord(k)}
RegionsMet == {k \in NoiseWords : IsRegionWord(k)}
ResolutionsMet == {k \in NoiseWords : IsResolutionWord(k)}
FirstAfterPrefix == [s \in ServiceNames |-> AfterPrefix(s)]

\* The places <<year, region, resolution>> among the words of a name at
\* which the pattern finds its parts.
Readings ==
    [s \in ServiceNames |->
        {p \in (1..Len(WordsOf[s])) \X (1..Len(WordsOf[s])) \X (1..Len(WordsOf[s])) :
            /\ FirstAfterPrefix[s] <= p[1] /\ p[1] < p[2] /\ p[2] < p[3]
            /\ WordsOf[s][p[1]] \in YearWords
            /\ \A k \in (p[1] + 1)..(p[2] - 1) : WordsOf[s][k] \in NoiseWords
            /\ WordsOf[s][p[2]] \in RegionsMet
            /\ \A k \in (p[2] + 1)..(p[3] - 1) : WordsOf[s][k] \in NoiseWords
            /\ WordsOf[s][p[3]] \in ResolutionsMet}]

\* The names that match the pattern.
Matching == {s \in ServiceNames : Readings[s] # {}}

TheFiveIds ==
    { "LAD_Dec_1961_in_England_and_Wales_BFC_Boundaries_2022",
      "LAD_JUN_1921_EW_BGC",
      "LAD_PT_JUN_1921_EW_BGC",
      "LAD_DEC_2021_EW_BFE_RUC",
      "LAD_DEC_2024_EW_BFE_RUC" }

\* The classifier has run to its end on the candidates loc.services.
Classified_ == fn = "ingest_arcgis_services" /\ pc = "done" /\ ret.kind = "return"

ArcgisIds(df) == [i \in 1..Len(df) |-> df[i].arcgis_id]

(***************************************************************************)
(* C15: for every list of candidates, a candidate is an output row if and  *)
(* only if it matches the classification pattern and is not one of the     *)
(* five excluded identifiers; "LAD_JUN_1921_EW_BGC", which is excluded,    *)
(* and an identifier with no region and no resolution give no row.         *)
(***************************************************************************)
C15_Membership ==
    Classified_ =>
        /\ \A s \in ServiceNames :
            (\E i \in DOMAIN loc.df : loc.df[i].arcgis_id = s)
                <=> /\ \E i \in DOMAIN loc.services : loc.services[i] = s
                    /\ s \in Matching
                    /\ s \notin TheFiveIds
        /\ \A i \in DOMAIN loc.df : loc.df[i].arcgis_id \in ServiceNames
        /\ (\A i \in DOMAIN loc.services :
                loc.services[i] \in {"LAD_JUN_1921_EW_BGC", "LAD_DEC_2023"})
            => loc.df = <<>>

\* An excluded identifier that matches and one that is kept.
C15_Witness ==
    /\ Classified_
    /\ loc.services = <<"LAD_JUN_1921_EW_BGC", "LAD_24_GB_BSC">>
    /\ ArcgisIds(loc.df) = <<"LAD_24_GB_BSC">>
    /\ "LAD_JUN_1921_EW_BGC" \in Matching

\* The one candidate is "LAD_DEC_2023_UK_BFC".
OnlyLadDec2023 == Classified_ /\ loc.services = <<"LAD_DEC_2023_UK_BFC">>

C17_FieldDomains ==
    Classified_ =>
        \A i \in DOMAIN loc.df :
            /\ loc.df[i].geography = "LAD"
            /\ loc.df[i].region \in RegionWords
            /\ loc.df[i].resolution \in ResolutionWords

(***************************************************************************)
(* C18: the year of a row is the integer that the captured year word of    *)
(* two or four digits writes, with no century added ("24" is 24), and it   *)
(* fits a signed 16-bit integer.                                           *)
(***************************************************************************)
\* The year word of a matching name: that of its earliest reading.
YearWord ==
    [s \in Matching |->
        WordsOf[s][(CHOOSE p \in Readings[s] : \A q \in Readings[s] : p[1] <= q[1])[1]]]

\* The decimal writing of n on len digits.
Written(n, len) ==
    LET digits == ToString(n)
    IN  Cat([k \in 1..(len - Len(digits)) |-> "0"]) \o digits

\* The integer that a year word writes.
YearOf ==
    [s \in Matching |->
        CHOOSE n \in 0..9999 :
            /\ Len(ToString(n)) <= Len(YearWord[s])
            /\ Written(n, Len(YearWord[s])) = YearWord[s]]

C18_YearAsWritten ==
    Classified_ =>
        \A i \in DOMAIN loc.df :
            /\ loc.df[i].year = YearOf[loc.df[i].arcgis_id]
            /\ -32768 <= loc.df[i].year /\ loc.df[i].year <= 32767

\* A year of two digits and the greatest year of four.
C18_Witness ==
    /\ Classified_
    /\ ArcgisIds(loc.df) = <<"LAD_24_GB_BSC", "LAD_9999_EW_BSC">>
    /\ loc.df[1].year = 24
    /\ loc.df[2].year = 9999

(***************************************************************************)
(* C19: the ingester is idempotent: run twice on the same page it gives    *)
(* the same table and the same count both times, and what the second run   *)
(* writes does not depend on the file the first run left: the file of a    *)
(* successful run is the table of that run, whatever was there before.     *)
(***************************************************************************)
IngestDone == fn = "ingest_arcgis_services" /\ pc = "done"

\* The step is a second run on the page of the first one.
SecondRun == IngestDone /\ Len(net') = Len(net) + 1 /\ response' = response

C19_SameOutcome ==
    SecondRun =>
        /\ ret' = ret
        /\ loc'.df = loc.df
        /\ ret.kind = "return" => file' = file

C19_FileIsTheTable ==
    Classified_ =>
        /\ file.state = "file"
        /\ file.lines = <<ArcgisHeader>> \o [i \in 1..Len(loc.df) |-> CsvLine(loc.df[i])]

C19_Idempotent == [](C19_FileIsTheTable) /\ [][C19_SameOutcome]_vars

\* A second run that wrote a row.
C19_Witness ==
    /\ Classified_
    /\ Len(net) = 2
    /\ Len(loc.df) = 2
    /\ Len(file.lines) = 3

(***************************************************************************)
(* C20: on a successful run the classified rows are written to the output  *)
(* path and the number returned is the number of rows written, which is    *)
(* the number of candidates, each occurrence counted and their order kept, *)
(* that match the pattern and are not excluded; it never exceeds the       *)
(* number of candidates.                                                   *)
(***************************************************************************)
\* The occurrences among the candidates that are to be kept.
KeptOccurrences ==
    {i \in DOMAIN loc.services :
        loc.services[i] \in Matching /\ loc.services[i] \notin TheFiveIds}

\* The line of the file begins with the name and a comma.
LineOf(line, name) == BeginsWith(line, name \o ",")

C20_CountOfRows ==
    Classified_ =>
        /\ ret.value = Cardinality(KeptOccurrences)
        /\ ret.value = Len(loc.df)
        /\ ret.value <= Len(loc.services)
        /\ ArcgisIds(loc.df) =
            SelectSeq(loc.services, LAMBDA s : s \in Matching /\ s \notin TheFiveIds)
        /\ file.state = "file"
        /\ Len(file.lines) = 1 + ret.value
        /\ \A i \in DOMAIN loc.df : LineOf(file.lines[i + 1], loc.df[i].arcgis_id)
        /\ out[Len(out)] = ToString(ret.value)

\* The same name twice: two rows.
C20_Witness ==
    /\ Classified_
    /\ loc.services = <<"LAD_24_GB_BSC", "LAD_24_GB_BSC">>
    /\ ret = Return(2)
    /\ Len(file.lines) = 3

(***************************************************************************)
(* The candidates of a catalog page.                                       *)
(***************************************************************************)
\* The page came: the request was answered and the status is no error.
PageFetched ==
    /\ IngestDone
    /\ response.conn = "ok"
    /\ ~(400 <= response.status /\ response.status <= 599)

\* The extraction of the candidates ended in an exception.
ExtractionRaised == PageFetched /\ ret.kind = "raise" /\ ret.class = "KeyError"

\* "FeatureServer" is somewhere in the href.
HasMarker(href) ==
    \E i \in 1..Len(href) : BeginsWith(SubSeq(href, i, Len(href)), "FeatureServer")

\* The entries of the services list that have a link whose href has the
\* marker, in the order of the page.
MarkedEntries(page) ==
    IF ~page.services_list THEN <<>>
    ELSE SelectSeq(page.items, LAMBDA li : li.a /\ li.has_href /\ HasMarker(li.href))

TextsOf(entries) == [i \in 1..Len(entries) |-> entries[i].text]

\* An entry of the page has a link with no href.
HasBareAnchor(page) ==
    page.services_list /\ \E i \in DOMAIN page.items : page.items[i].a /\ ~page.items[i].has_href

(***************************************************************************)
(* C21: for every catalog page, the candidates are the texts of exactly    *)
(* the entries of the services list whose link has an href with            *)
(* "FeatureServer", in the order of the page; an entry with no link or     *)
(* with no marker in its href gives nothing, and a page with no services   *)
(* list gives no candidate and no error.                                   *)
(***************************************************************************)
C21_Candidates ==
    PageFetched =>
        /\ ~ExtractionRaised
        /\ loc.services = TextsOf(MarkedEntries(response.body))

(***************************************************************************)
(* C22: in every run of extract_data_source the request of the dataset     *)
(* list is the first one; after it comes exactly one overview request per  *)
(* non-excluded id, in the order of the dataset list, each sent only when  *)
(* the one before has returned or failed; a failure for one id does not    *)
(* keep the later ids from being requested, and the rows of the result are *)
(* in the order of the requests.                                           *)
(***************************************************************************)
\* The requests a complete run makes, in their order.
RequestsOfRun ==
    <<Get_(TablesUrl(args.base_url))>>
    \o [i \in 1..Len(NonExcludedIds) |-> Get_(OverviewUrl(args.base_url, NonExcludedIds[i]))]

\* The overview requests that have been answered or have failed.
Settled == Len(loc.sources_list)

\* The requests made so far are the first ones of the run; every one but
\* the last has its row, the rows are in the order of the requests, and at
\* the end no request is missing.
C22_RequestsInOrder ==
    fn = "extract_data_source" =>
        /\ Len(net) <= Len(RequestsOfRun)
        /\ net = SubSeq(RequestsOfRun, 1, Len(net))
        /\ Settled \in {Len(net) - 1, Len(net) - 2}
        /\ Settled = Len(net) - 2 <=> pc = "wait"
        /\ \A i \in DOMAIN loc.sources_list :
                net[i + 1].url = OverviewUrl(args.base_url, loc.sources_list[i].id)
        /\ (pc = "done" /\ ret.kind = "return") =>
                /\ net = RequestsOfRun
                /\ ret.value = loc.sources_list

\* A request is sent only when none is pending, one at a time; a failure
\* is followed by the request of the next id, when there is one.
C22_OneAtATime ==
    fn = "extract_data_source" =>
        /\ net' # net =>
                /\ pc = "loop"
                /\ Settled = Len(net) - 1
                /\ net' = Append(net, RequestsOfRun[Len(net) + 1])
                /\ pc' = "wait"
        /\ (pc = "wait" /\ Len(loc.filtered) > 1) =>
                pc' \in {"wait", "loop"}
        /\ (pc = "loop" /\ DatasetFailed /\ pc' # pc) => Len(net') = Len(net) + 1

C22_Sequential == [](C22_RequestsInOrder) /\ [][C22_OneAtATime]_vars

\* Two datasets: the first one was refused, the second one was requested
\* after it and answered.
C22_Witness ==
    /\ fn = "extract_data_source" /\ pc = "done" /\ ret.kind = "return"
    /\ Len(net) = 3
    /\ net[2].url # net[3].url
    /\ RowIds(ret.value) = NonExcludedIds
    /\ ret.value[1].sourceName = ""
    /\ out[2] = "Error processing dataset " \o ret.value[1].id \o ": Connection refused"
    /\ response.conn = "ok"

(***************************************************************************)
(* C23: the exclusion list is compared by exact equality of strings while  *)
(* the pattern ignores case: an identifier that matches the pattern and    *)
(* differs from an excluded one in the case of its letters only, such as   *)
(* "lad_jun_1921_ew_bgc", is kept, and the exclusion drops nothing but the *)
(* five strings themselves.                                                *)
(***************************************************************************)
\* The name is an excluded identifier written in another case.
ExcludedButForCase(s) ==
    s \notin TheFiveIds /\ \E t \in TheFiveIds : UpperText(s) = UpperText(t)

\* The candidates that match the pattern and have no row.
DroppedByExclusion ==
    {loc.services[i] : i \in {j \in DOMAIN loc.services : loc.services[j] \in Matching}}
        \ {loc.df[i].arcgis_id : i \in DOMAIN loc.df}

C23_ExactExclusion ==
    Classified_ =>
        /\ DroppedByExclusion \subseteq TheFiveIds
        /\ \A i \in DOMAIN loc.services :
                ExcludedButForCase(loc.services[i]) =>
                    /\ loc.services[i] \in Matching
                    /\ \E k \in DOMAIN loc.df : loc.df[k].arcgis_id = loc.services[i]
                    /\ \E k \in 2..Len(file.lines) :
                            LineOf(file.lines[k], loc.services[i])

\* The excluded identifier and the same in lower case: the first is
\* dropped, the second is a row.
C23_Witness ==
    /\ Classified_
    /\ loc.services = <<"LAD_JUN_1921_EW_BGC", "lad_jun_1921_ew_bgc">>
    /\ ExcludedButForCase(loc.services[2])
    /\ DroppedByExclusion = {"LAD_JUN_1921_EW_BGC"}
    /\ ArcgisIds(loc.df) = <<"lad_jun_1921_ew_bgc">>
    /\ ret = Return(1)

(***************************************************************************)
(* C24: when the catalog cannot be fetched, the request failing or being   *)
(* answered with an error status, ingest_arcgis_services raises the error  *)
(* again and returns no count, and the file at the output path is neither  *)
(* written nor changed; the file is written only when the page has been    *)
(* fetched and the candidates extracted.                                   *)
(***************************************************************************)
\* The request of the page failed or was answered with an error status.
FetchFailed ==
    /\ IngestDone
    /\ \/ response.conn = "refused"
       \/ response.conn = "ok" /\ response.status \in 400..599

\* The step is a run of the ingester.
RunOfIngester == pc' = "done" /\ fn' = "ingest_arcgis_services" /\ Len(net') = Len(net) + 1

C24_FileUntouched ==
    RunOfIngester =>
        /\ FetchFailed' =>
                /\ ret'.kind = "raise"
                /\ ret'.class \in {"ConnectionError", "HTTPError"}
                /\ file' = file
                /\ loc'.services = <<>> /\ loc'.df = <<>>
                /\ out' = out
        /\ file' # file =>
                /\ PageFetched'
                /\ ~ExtractionRaised'
                /\ ret'.kind = "return"
                /\ file'.state = "file"
        /\ (PageFetched' /\ ExtractionRaised') => file' = file

\* After a run, a failed fetch has left no count.
C24_NoCount == FetchFailed => ret.kind = "raise" /\ ret.class \in {"ConnectionError", "HTTPError"}

C24_FailureLeavesOutput == [](C24_NoCount) /\ [][C24_FileUntouched]_vars

\* The server answers 500 and the file of an earlier run is still there.
C24_Witness ==
    /\ FetchFailed
    /\ response.conn = "ok" /\ response.status = 500
    /\ ret.class = "HTTPError"
    /\ file = OldFile

====
